---- MODULE Spec2Model ----
(***************************************************************************)
(* Model of contrib/python/visioncpp/backend.py: the content-addressed     *)
(* build cache and the three-stage compute++ pipeline of compile_cpp_code. *)
(* Each process of Procs is an operating-system process that calls         *)
(* compile_cpp_code; the filesystem (toolchain files, scratch workspaces,  *)
(* the cache directory) is shared between them.                            *)
(***************************************************************************)
EXTENDS Integers, Sequences, FiniteSets, TLC

(* ---------------------------- bounds ---------------------------------- *)

\* Source texts are "A" followed by 0..MaxSpaces trailing spaces.
MaxSpaces == 1

\* Scratch directory names mkdtemp can hand out.
MaxWorkspaces == 2

\* Longest pipeline handed to run.
MaxStages == 2

Procs == {"p1", "p2"}

\* Popen.returncode values of compute++: success, two failing exit codes,
\* and death by signal 9 (negative on POSIX).
RetCodes == {0, 1, 2, -9}

RECURSIVE Spaces(_)
Spaces(n) == IF n = 0 THEN <<>> ELSE <<" ">> \o Spaces(n - 1)

Sources == {<<"A">> \o Spaces(n) : n \in 0..MaxSpaces}

DirIds == 1..MaxWorkspaces

(* ---------------------------- paths ----------------------------------- *)

\* A path is a record: the root it lives under, the scratch directory
\* number (0 outside the scratch area) and the file name.
NoPath == [root |-> "none", dir |-> 0, name |-> <<>>]

NoInput == <<"<no stdin>">>

NoErr == [type |-> "none", path |-> NoPath]

ToolFiles == {<<"bin", "computecpp_info">>, <<"bin", "compute++">>,
              <<"lib", "libComputeCpp.so">>}

PrefixPath(f) == [root |-> "computecpp_prefix", dir |-> 0, name |-> f]

\* mkdtemp(prefix="visioncpp-")
TmpDir(d) == [root |-> "visioncpp-", dir |-> d, name |-> <<>>]

\* os.path.join(dir, fname)
Join(dirpath, fname) == [dirpath EXCEPT !.name = <<fname>>]

(* ---------------------------- source text ----------------------------- *)

\* The test_add boilerplate that compile_cpp_code prepends, as one token.
Preamble == <<"extern C test_add">>

UnprefixedCode(code) == code

PrefixedStripped(code) == Preamble \o SelectSeq(code, LAMBDA ch : ch # " ")

Prefixed(code) == Preamble \o code

(* ---------------------------- FSCache --------------------------------- *)

\* labm8 hash_key: the file name of a key (a digest of the key).
HashKey(key) == <<"sha1">> \o key

\* FSCache.keypath
KeyPath(key) == [root |-> "~/.cache/visioncpp", dir |-> 0, name |-> HashKey(key)]

VARIABLES
    toolFiles,   \* the toolchain files that exist under computecpp_prefix
    logInfo,     \* root logger's effective level <= INFO
    wsDirs,      \* scratch directories that exist
    wsFiles,     \* wsFiles[d]: output files inside scratch directory d
    cache,       \* cache[path]: the artifact stored at that cache path
    pc,          \* where each process is inside compile_cpp_code
    src,         \* the argument of the current call
    code,        \* the local `code` after the preamble is prepended
    tmpdir,      \* directory number returned by mkdtemp (0: none)
    stub, host, tmpbin,  \* paths returned by the three stages
    ret,         \* the path the call returned
    err,         \* the exception the call raised
    exitStatus,  \* the status the process terminated with (-1: none)
    invs,        \* external processes spawned by the current call
    diag,        \* what the current call wrote to the diagnostic streams
    cacheOps,    \* the cache operations of the current call, in order
    done,        \* history: stages of the current call whose compiler
                 \* exited 0 and left its output file
    built,       \* history: source texts built through all three stages
    firstRet,    \* history: source text -> path its first build returned
    prior,       \* history: the call began after a build of its text returned
    copying,     \* processes in the middle of copying their binary into the cache
    runPc,       \* where the caller of run(pipeline, binary) is
    pipeline,    \* run's argument pipeline: the kinds of its elements
    binary,      \* run's argument binary
    shown,       \* number of images run has displayed
    loaded,      \* run has loaded the library
    called,      \* entry points of the library run has called, in order
    runErr       \* the exception run raised

\* The state of run(pipeline, binary).
runVars == <<runPc, pipeline, binary, shown, loaded, called, runErr>>

vars == <<toolFiles, logInfo, wsDirs, wsFiles, cache, pc, src, code, tmpdir,
          stub, host, tmpbin, ret, err, exitStatus, invs, diag, cacheOps, done,
          built, firstRet, prior, copying, runVars>>

Ended == {"idle", "returned", "raised", "exited"}

Init ==
    /\ toolFiles \in SUBSET ToolFiles
    /\ logInfo \in BOOLEAN
    /\ wsDirs = {}
    /\ wsFiles = [d \in DirIds |-> {}]
    /\ cache = [x \in {} |-> NoErr]
    /\ pc = [p \in Procs |-> "idle"]
    /\ src = [p \in Procs |-> <<>>]
    /\ code = [p \in Procs |-> <<>>]
    /\ tmpdir = [p \in Procs |-> 0]
    /\ stub = [p \in Procs |-> NoPath]
    /\ host = [p \in Procs |-> NoPath]
    /\ tmpbin = [p \in Procs |-> NoPath]
    /\ ret = [p \in Procs |-> NoPath]
    /\ err = [p \in Procs |-> NoErr]
    /\ exitStatus = [p \in Procs |-> -1]
    /\ invs = [p \in Procs |-> <<>>]
    /\ diag = [p \in Procs |-> {}]
    /\ cacheOps = [p \in Procs |-> <<>>]
    /\ done = [p \in Procs |-> {}]
    /\ built = {}
    /\ firstRet = [x \in {} |-> NoPath]
    /\ prior = [p \in Procs |-> FALSE]
    /\ copying = {}
    /\ runPc = "idle"
    /\ pipeline = <<>>
    /\ binary = [isStr |-> FALSE, nonEmpty |-> TRUE, exists |-> FALSE]
    /\ shown = 0
    /\ loaded = FALSE
    /\ called = <<>>
    /\ runErr = "none"

(* ---------------------------- helpers --------------------------------- *)

Min(S) == CHOOSE x \in S : \A y \in S : x <= y

\* must_exist is applied to the three files in this order.
ToolOrder == <<<<"bin", "computecpp_info">>, <<"bin", "compute++">>,
               <<"lib", "libComputeCpp.so">>>>

MissingToolsNoLib == {i \in 1..2 : ToolOrder[i] \notin toolFiles}

MissingTools == {i \in 1..3 : ToolOrder[i] \notin toolFiles}

\* FSCache.get(key): the entry's path when it exists, else None.
CacheGet(key) == IF KeyPath(key) \in DOMAIN cache THEN KeyPath(key) ELSE NoPath

\* `if bincache.get(code):`
IsCachedNever(key) == FALSE

IsCached(key) == CacheGet(key) # NoPath

\* sys.exit(process.returncode): the status the operating system reports.
ExitCodeOne(rc) == 1

ExitCode(rc) == rc % 256

\* The reset of a call's locals and per-call records when a call begins.
CallReset(p) ==
    /\ tmpdir' = [tmpdir EXCEPT ![p] = 0]
    /\ stub' = [stub EXCEPT ![p] = NoPath]
    /\ host' = [host EXCEPT ![p] = NoPath]
    /\ tmpbin' = [tmpbin EXCEPT ![p] = NoPath]
    /\ ret' = [ret EXCEPT ![p] = NoPath]
    /\ err' = [err EXCEPT ![p] = NoErr]
    /\ exitStatus' = [exitStatus EXCEPT ![p] = -1]
    /\ invs' = [invs EXCEPT ![p] = <<>>]
    /\ diag' = [diag EXCEPT ![p] = {}]
    /\ done' = [done EXCEPT ![p] = {}]

\* `except Exception as e: rmtree(tmpdir); raise e`
RaiseWithCleanup(p, e) ==
    /\ wsDirs' = wsDirs \ {tmpdir[p]}
    /\ wsFiles' = [wsFiles EXCEPT ![tmpdir[p]] = {}]
    /\ err' = [err EXCEPT ![p] = e]
    /\ pc' = [pc EXCEPT ![p] = "raised"]

(* ---------------------------- compile_cpp_code ------------------------ *)

\* Entry of compile_cpp_code(s): prepend the preamble, open the cache and
\* test bincache.get(code).  A process that has terminated is restarted.
Call(p, s) ==
    /\ pc[p] \in Ended
    /\ src' = [src EXCEPT ![p] = s]
    /\ code' = [code EXCEPT ![p] = Prefixed(s)]
    /\ cacheOps' = [cacheOps EXCEPT ![p] = <<<<"get", code'[p]>>>>]
    /\ prior' = [prior EXCEPT ![p] = s \in DOMAIN firstRet]
    /\ pc' = [pc EXCEPT ![p] = IF IsCached(code'[p]) THEN "hit" ELSE "check"]
    /\ CallReset(p)
    /\ UNCHANGED <<toolFiles, logInfo, wsDirs, wsFiles, cache, built, firstRet>>
    /\ UNCHANGED <<copying, runVars>>

\* A cache-hit branch that looks for the toolchain before it returns.
CacheHitChecked(p) ==
    /\ pc[p] = "hit"
    /\ cacheOps' = [cacheOps EXCEPT ![p] = Append(@, <<"getitem", code[p]>>)]
    /\ IF MissingTools = {}
       THEN /\ ret' = [ret EXCEPT ![p] = CacheGet(code[p])]
            /\ pc' = [pc EXCEPT ![p] = "returned"]
            /\ err' = err
       ELSE /\ err' = [err EXCEPT ![p] = [type |-> "VisionCppException",
                                          path |-> PrefixPath(ToolOrder[Min(MissingTools)])]]
            /\ pc' = [pc EXCEPT ![p] = "raised"]
            /\ ret' = ret
    /\ UNCHANGED <<toolFiles, logInfo, wsDirs, wsFiles, cache, src, code, tmpdir,
                   stub, host, tmpbin, exitStatus, invs, diag, done, built, firstRet,
                   prior, copying, runVars>>

\* The cache-hit branch: log the cached binary, then `return bincache[code]`.
CacheHit(p) ==
    /\ pc[p] = "hit"
    /\ cacheOps' = [cacheOps EXCEPT ![p] = Append(@, <<"getitem", code[p]>>)]
    /\ IF CacheGet(code[p]) # NoPath
       THEN /\ ret' = [ret EXCEPT ![p] = CacheGet(code[p])]
            /\ pc' = [pc EXCEPT ![p] = "returned"]
            /\ err' = err
       ELSE /\ err' = [err EXCEPT ![p] = [type |-> "KeyError", path |-> NoPath]]
            /\ pc' = [pc EXCEPT ![p] = "raised"]
            /\ ret' = ret
    /\ UNCHANGED <<toolFiles, logInfo, wsDirs, wsFiles, cache, src, code, tmpdir,
                   stub, host, tmpbin, exitStatus, invs, diag, done, built, firstRet, prior>>
    /\ UNCHANGED <<copying, runVars>>

\* check_for_computecpp: the first missing file raises VisionCppException.
CheckForComputecpp(p) ==
    /\ pc[p] = "check"
    /\ IF MissingTools # {}
       THEN /\ err' = [err EXCEPT ![p] = [type |-> "VisionCppException",
                                          path |-> PrefixPath(ToolOrder[Min(MissingTools)])]]
            /\ pc' = [pc EXCEPT ![p] = "raised"]
       ELSE /\ err' = err
            /\ pc' = [pc EXCEPT ![p] = "mkdtemp"]
    /\ UNCHANGED <<toolFiles, logInfo, wsDirs, wsFiles, cache, src, code, tmpdir,
                   stub, host, tmpbin, ret, exitStatus, invs, diag, cacheOps, done,
                   built, firstRet, prior>>
    /\ UNCHANGED <<copying, runVars>>

\* tmpdir = mkdtemp(prefix="visioncpp-"): a directory that did not exist.
Mkdtemp(p) ==
    /\ pc[p] = "mkdtemp"
    /\ DirIds \ wsDirs # {}
    /\ LET d == Min(DirIds \ wsDirs) IN
         /\ tmpdir' = [tmpdir EXCEPT ![p] = d]
         /\ wsDirs' = wsDirs \cup {d}
         /\ wsFiles' = [wsFiles EXCEPT ![d] = {}]
    /\ pc' = [pc EXCEPT ![p] = "stub"]
    /\ UNCHANGED <<toolFiles, logInfo, cache, src, code, stub, host, tmpbin, ret,
                   err, exitStatus, invs, diag, cacheOps, done, built, firstRet, prior>>
    /\ UNCHANGED <<copying, runVars>>

(* ---------------------------- toolchain invoker ----------------------- *)

InfoTool == <<"bin", "computecpp_info">>
Compiler == <<"bin", "compute++">>

\* The Popen of get_device_cflags: computecpp_info --dump-device-compiler-flags
InfoSpawn == [tool |-> InfoTool, out |-> NoPath, stdin |-> NoInput,
              include |-> NoPath, obj |-> NoPath, rc |-> 0]

\* What invoke_computecpp prints before sys.exit when the compiler failed.
FailureDumpNoStderr(stage, stdin) ==
    (IF stdin # NoInput THEN {<<"input", stage>>} ELSE {}) \cup {<<"stdout", stage>>}

FailureDump(stage, stdin) ==
    (IF stdin # NoInput THEN {<<"input", stage>>} ELSE {})
        \cup {<<"stdout", stage>>, <<"stderr", stage>>}

\* logging.info(" ".join(cmd)): emitted only at level INFO or below.
CommandLog(stage) == IF logInfo THEN {<<"command", stage>>} ELSE {}

\* The output file of each stage: os.path.join(dir, ...).
StageFileSwapped(stage) ==
    IF stage = "stub" THEN "host.o"
    ELSE IF stage = "host" THEN "stub.sycl" ELSE "visioncpp_native"

StageFile(stage) ==
    IF stage = "stub" THEN "stub.sycl"
    ELSE IF stage = "host" THEN "host.o" ELSE "visioncpp_native"

AllStages == {"stub", "host", "link"}

\* History of what the toolchain really did in stage `stage` of p's call.
Record(p, stage, rc, made) ==
    /\ done' = [done EXCEPT ![p] = IF rc = 0 /\ made THEN @ \cup {stage} ELSE @]
    /\ built' = IF done'[p] = AllStages THEN built \cup {src[p]} ELSE built

\* What follows the compiler's exit: `if process.returncode != 0` in
\* invoke_computecpp, then `assert(os.path.exists(dest))` in the stage.
OutcomeUnchecked(rc, made) == IF made THEN "ok" ELSE "assert"

OutcomeNoAssert(rc, made) == IF rc # 0 THEN "exit" ELSE "ok"

Outcome(rc, made) ==
    IF rc # 0 THEN "exit" ELSE IF made THEN "ok" ELSE "assert"

\* One stage of the try block (stub_file, host_compile or link) together
\* with the except handler of compile_cpp_code.  inv is the compute++
\* invocation the stage makes, made whether the compiler wrote its output
\* file, next the position after a successful stage.
RunStage(p, stage, useInfo, inv, made, next) ==
    LET d == tmpdir[p]
        fname == inv.out.name[1]
        spawned == IF useInfo THEN <<InfoSpawn>> ELSE <<>>
    IN
    IF fname \in wsFiles[d]
    THEN \* assert(not os.path.exists(dest))
         /\ RaiseWithCleanup(p, [type |-> "AssertionError", path |-> inv.out])
         /\ UNCHANGED <<exitStatus, invs, diag, done, built>>
    ELSE IF useInfo /\ InfoTool \notin toolFiles
    THEN \* Popen of computecpp_info fails: OSError
         /\ RaiseWithCleanup(p, [type |-> "OSError", path |-> PrefixPath(InfoTool)])
         /\ UNCHANGED <<exitStatus, invs, diag, done, built>>
    ELSE IF Compiler \notin toolFiles
    THEN \* the command is logged, then Popen of compute++ fails: OSError
         /\ RaiseWithCleanup(p, [type |-> "OSError", path |-> PrefixPath(Compiler)])
         /\ invs' = [invs EXCEPT ![p] = @ \o spawned]
         /\ diag' = [diag EXCEPT ![p] = @ \cup CommandLog(stage)]
         /\ UNCHANGED <<exitStatus, done, built>>
    ELSE IF Outcome(inv.rc, made) = "exit"
    THEN \* diagnostics, then sys.exit(process.returncode): SystemExit is
         \* no Exception, so the except handler does not run
         /\ invs' = [invs EXCEPT ![p] = @ \o spawned \o <<inv>>]
         /\ diag' = [diag EXCEPT ![p] =
                        @ \cup CommandLog(stage) \cup FailureDump(stage, inv.stdin)]
         /\ exitStatus' = [exitStatus EXCEPT ![p] = ExitCode(inv.rc)]
         /\ pc' = [pc EXCEPT ![p] = "exited"]
         /\ wsFiles' = [wsFiles EXCEPT ![d] = IF made THEN @ \cup {fname} ELSE @]
         /\ Record(p, stage, inv.rc, made)
         /\ UNCHANGED <<wsDirs, err>>
    ELSE IF Outcome(inv.rc, made) = "assert"
    THEN \* assert(os.path.exists(dest))
         /\ RaiseWithCleanup(p, [type |-> "AssertionError", path |-> inv.out])
         /\ invs' = [invs EXCEPT ![p] = @ \o spawned \o <<inv>>]
         /\ diag' = [diag EXCEPT ![p] = @ \cup CommandLog(stage)]
         /\ Record(p, stage, inv.rc, made)
         /\ UNCHANGED <<exitStatus>>
    ELSE /\ invs' = [invs EXCEPT ![p] = @ \o spawned \o <<inv>>]
         /\ diag' = [diag EXCEPT ![p] = @ \cup CommandLog(stage)]
         /\ wsFiles' = [wsFiles EXCEPT ![d] = @ \cup {fname}]
         /\ pc' = [pc EXCEPT ![p] = next]
         /\ Record(p, stage, inv.rc, made)
         /\ UNCHANGED <<wsDirs, err, exitStatus>>

\* stub = stub_file(code, dir=tmpdir)
StubFile(p) ==
    /\ pc[p] = "stub"
    /\ \E rc \in RetCodes, made \in BOOLEAN :
         LET dest == Join(TmpDir(tmpdir[p]), StageFile("stub"))
             inv == [tool |-> Compiler, out |-> dest, stdin |-> code[p],
                     include |-> NoPath, obj |-> NoPath, rc |-> rc]
         IN /\ RunStage(p, "stub", TRUE, inv, made, "host")
            /\ stub' = [stub EXCEPT ![p] = IF pc'[p] = "host" THEN dest ELSE @]
    /\ UNCHANGED <<toolFiles, logInfo, cache, src, code, tmpdir, host, tmpbin, ret,
                   cacheOps, firstRet, prior>>
    /\ UNCHANGED <<copying, runVars>>

\* A host compile that does not force-include the integration header.
HostCompileNoInclude(p) ==
    /\ pc[p] = "host"
    /\ \E rc \in RetCodes, made \in BOOLEAN :
         LET dest == Join(TmpDir(tmpdir[p]), StageFile("host"))
             inv == [tool |-> Compiler, out |-> dest, stdin |-> code[p],
                     include |-> NoPath, obj |-> NoPath, rc |-> rc]
         IN /\ RunStage(p, "host", FALSE, inv, made, "link")
            /\ host' = [host EXCEPT ![p] = IF pc'[p] = "link" THEN dest ELSE @]
    /\ UNCHANGED <<toolFiles, logInfo, cache, src, code, tmpdir, stub, tmpbin, ret,
                   cacheOps, firstRet, prior, copying, runVars>>

\* host = host_compile(code, stub, dir=tmpdir)
HostCompile(p) ==
    /\ pc[p] = "host"
    /\ \E rc \in RetCodes, made \in BOOLEAN :
         LET dest == Join(TmpDir(tmpdir[p]), StageFile("host"))
             inv == [tool |-> Compiler, out |-> dest, stdin |-> code[p],
                     include |-> stub[p], obj |-> NoPath, rc |-> rc]
         IN /\ RunStage(p, "host", FALSE, inv, made, "link")
            /\ host' = [host EXCEPT ![p] = IF pc'[p] = "link" THEN dest ELSE @]
    /\ UNCHANGED <<toolFiles, logInfo, cache, src, code, tmpdir, stub, tmpbin, ret,
                   cacheOps, firstRet, prior>>
    /\ UNCHANGED <<copying, runVars>>

\* A link stage that runs the compiler again whenever it failed.
LinkRetrying(p) ==
    /\ pc[p] = "link"
    /\ invs' = [invs EXCEPT ![p] =
                   Append(@, [tool |-> Compiler,
                              out |-> Join(TmpDir(tmpdir[p]), StageFile("link")),
                              stdin |-> NoInput, include |-> NoPath,
                              obj |-> host[p], rc |-> 1])]
    /\ UNCHANGED <<toolFiles, logInfo, wsDirs, wsFiles, cache, pc, src, code, tmpdir,
                   stub, host, tmpbin, ret, err, exitStatus, diag, cacheOps, done,
                   built, firstRet, prior, copying, runVars>>

\* tmpbin = link(host, dir=tmpdir)
Link(p) ==
    /\ pc[p] = "link"
    /\ \E rc \in RetCodes, made \in BOOLEAN :
         LET dest == Join(TmpDir(tmpdir[p]), StageFile("link"))
             inv == [tool |-> Compiler, out |-> dest, stdin |-> NoInput,
                     include |-> NoPath, obj |-> host[p], rc |-> rc]
         IN /\ RunStage(p, "link", FALSE, inv, made, "store")
            /\ tmpbin' = [tmpbin EXCEPT ![p] = IF pc'[p] = "store" THEN dest ELSE @]
    /\ UNCHANGED <<toolFiles, logInfo, cache, src, code, tmpdir, stub, host, ret,
                   cacheOps, firstRet, prior>>
    /\ UNCHANGED <<copying, runVars>>

(* ---------------------------- cache store and return ------------------ *)

\* FSCache.__setitem__(key, value): move the file at `value` to keypath(key).
CacheSet(key, artifact) == (KeyPath(key) :> artifact) @@ cache

\* The artifact is left in the workspace: nothing is put into the cache.
StoreSkipped(p) ==
    /\ pc[p] = "store"
    /\ pc' = [pc EXCEPT ![p] = "rmtree"]
    /\ UNCHANGED <<toolFiles, logInfo, wsDirs, wsFiles, cache, src, code, tmpdir,
                   stub, host, tmpbin, ret, err, exitStatus, invs, diag, cacheOps,
                   done, built, firstRet, prior, copying, runVars>>

\* The other processes that are writing the cache file of p's key.
Writers(p) == {q \in copying \ {p} : code[q] = code[p]}

\* A store that empties the cache directory before it adds its entry.
StoreClearing(p) ==
    /\ pc[p] = "store"
    /\ tmpbin[p].name[1] \in wsFiles[tmpdir[p]]
    /\ cacheOps' = [cacheOps EXCEPT ![p] = Append(@, <<"setitem", code[p]>>)]
    /\ cache' = (KeyPath(code[p]) :> [text |-> code[p], builder |-> p])
    /\ wsFiles' = [wsFiles EXCEPT ![tmpdir[p]] = @ \ {tmpbin[p].name[1]}]
    /\ pc' = [pc EXCEPT ![p] = "rmtree"]
    /\ UNCHANGED <<toolFiles, logInfo, wsDirs, src, code, tmpdir, stub, host, tmpbin,
                   ret, err, exitStatus, invs, diag, done, built, firstRet, prior,
                   copying, runVars>>

\* bincache[code] = tmpbin when the move is a rename: the cache path names
\* the linked binary at once, and a file other writers were still filling
\* is replaced by it.
Store(p) ==
    /\ pc[p] = "store"
    /\ cacheOps' = [cacheOps EXCEPT ![p] = Append(@, <<"setitem", code[p]>>)]
    /\ IF tmpbin[p].name[1] \in wsFiles[tmpdir[p]]
       THEN /\ cache' = CacheSet(code[p], [text |-> code[p], builder |-> p])
            /\ wsFiles' = [wsFiles EXCEPT ![tmpdir[p]] = @ \ {tmpbin[p].name[1]}]
            /\ pc' = [pc EXCEPT ![p] = "rmtree"]
            /\ UNCHANGED <<wsDirs, err>>
       ELSE \* FSCache raises ValueError for a missing file
            /\ RaiseWithCleanup(p, [type |-> "ValueError", path |-> tmpbin[p]])
            /\ cache' = cache
    /\ UNCHANGED <<toolFiles, logInfo, src, code, tmpdir, stub, host, tmpbin, ret,
                   exitStatus, invs, diag, done, built, firstRet, prior>>
    /\ copying' = IF pc'[p] = "rmtree" THEN copying \ Writers(p) ELSE copying
    /\ UNCHANGED runVars

\* bincache[code] = tmpbin when the workspace and the cache directory are on
\* different filesystems: the move cannot rename, so it opens the cache file
\* for writing (truncating it) and copies the binary into it.  A copy that
\* overlaps another writer of the same file may leave a mix of both.
StoreCopy(p) ==
    /\ pc[p] = "store"
    /\ tmpbin[p].name[1] \in wsFiles[tmpdir[p]]
    /\ cacheOps' = [cacheOps EXCEPT ![p] = Append(@, <<"setitem", code[p]>>)]
    /\ \E b \in IF Writers(p) = {} THEN {p} ELSE {p, "mixed"} :
           cache' = CacheSet(code[p], [text |-> code[p], builder |-> b])
    /\ copying' = copying \cup {p}
    /\ pc' = [pc EXCEPT ![p] = "copying"]
    /\ UNCHANGED <<toolFiles, logInfo, wsDirs, wsFiles, src, code, tmpdir, stub, host,
                   tmpbin, ret, err, exitStatus, invs, diag, done, built, firstRet,
                   prior, runVars>>

\* The end of that move: the copy is complete and the source is unlinked.
StoreUnlink(p) ==
    /\ pc[p] = "copying"
    /\ copying' = copying \ {p}
    /\ wsFiles' = [wsFiles EXCEPT ![tmpdir[p]] = @ \ {tmpbin[p].name[1]}]
    /\ pc' = [pc EXCEPT ![p] = "rmtree"]
    /\ UNCHANGED <<toolFiles, logInfo, wsDirs, cache, src, code, tmpdir, stub, host,
                   tmpbin, ret, err, exitStatus, invs, diag, cacheOps, done, built,
                   firstRet, prior, runVars>>

\* The value of `return bincache[code]` after a build.
ReturnTmpbin(p) == tmpbin[p]

ReturnValue(p) == CacheGet(code[p])

\* rmtree(tmpdir) after the try block, then `return bincache[code]`.
Finish(p) ==
    /\ pc[p] = "rmtree"
    /\ wsDirs' = wsDirs \ {tmpdir[p]}
    /\ wsFiles' = [wsFiles EXCEPT ![tmpdir[p]] = {}]
    /\ cacheOps' = [cacheOps EXCEPT ![p] = Append(@, <<"getitem", code[p]>>)]
    /\ IF ReturnValue(p) # NoPath
       THEN /\ ret' = [ret EXCEPT ![p] = ReturnValue(p)]
            /\ pc' = [pc EXCEPT ![p] = "returned"]
            /\ firstRet' = IF src[p] \in DOMAIN firstRet THEN firstRet
                           ELSE (src[p] :> ret'[p]) @@ firstRet
            /\ err' = err
       ELSE /\ err' = [err EXCEPT ![p] = [type |-> "KeyError", path |-> NoPath]]
            /\ pc' = [pc EXCEPT ![p] = "raised"]
            /\ UNCHANGED <<ret, firstRet>>
    /\ UNCHANGED <<toolFiles, logInfo, cache, src, code, tmpdir, stub, host, tmpbin,
                   exitStatus, invs, diag, done, built, prior>>
    /\ UNCHANGED <<copying, runVars>>

(* ---------------------------- environment ----------------------------- *)

\* A toolchain file is removed from the install prefix.
Uninstall(f) ==
    /\ f \in toolFiles
    /\ toolFiles' = toolFiles \ {f}
    /\ UNCHANGED <<logInfo, wsDirs, wsFiles, cache, pc, src, code, tmpdir, stub,
                   host, tmpbin, ret, err, exitStatus, invs, diag, cacheOps, done, built,
                   firstRet, prior>>
    /\ UNCHANGED <<copying, runVars>>

\* The steps of one process inside compile_cpp_code.
Step(p) ==
    \/ \E s \in Sources : Call(p, s)
    \/ CacheHit(p)
    \/ CheckForComputecpp(p)
    \/ Mkdtemp(p)
    \/ StubFile(p)
    \/ HostCompile(p)
    \/ Link(p)
    \/ Store(p)
    \/ StoreCopy(p)
    \/ StoreUnlink(p)
    \/ Finish(p)

\* One caller at a time: every call of compile_cpp_code runs to its end
\* before the next begins (in the same process or in a later one).
Next ==
    \/ Step("p1")
    \/ \E f \in ToolFiles : Uninstall(f)

Spec == Init /\ [][Next]_vars

\* Two processes call compile_cpp_code concurrently, with the toolchain
\* installed and a compiler that exits 0 (it may still leave no output).
InitConc == Init /\ toolFiles = ToolFiles /\ ~logInfo

NextConc ==
    \/ \E p \in Procs, s \in Sources : Call(p, s)
    \/ \E p \in Procs : CacheHit(p)
    \/ \E p \in Procs : CheckForComputecpp(p)
    \/ \E p \in Procs : Mkdtemp(p)
    \/ \E p \in Procs : StubFile(p) /\ pc'[p] # "exited"
    \/ \E p \in Procs : HostCompile(p) /\ pc'[p] # "exited"
    \/ \E p \in Procs : Link(p) /\ pc'[p] # "exited"
    \/ \E p \in Procs : Store(p)
    \/ \E p \in Procs : StoreCopy(p)
    \/ \E p \in Procs : StoreUnlink(p)
    \/ \E p \in Procs : Finish(p)

SpecConc == InitConc /\ [][NextConc]_vars

\* The steps of p between the entry of compile_cpp_code and its end.
Progress(p) ==
    \/ CacheHit(p)
    \/ CheckForComputecpp(p)
    \/ Mkdtemp(p)
    \/ StubFile(p)
    \/ HostCompile(p)
    \/ Link(p)
    \/ Store(p)
    \/ StoreCopy(p)
    \/ StoreUnlink(p)
    \/ Finish(p)

\* One caller at a time, as in Spec, with a toolchain that does not change
\* during the run.  A call is begun only while mkdtemp has a name left to
\* hand out.
NextTerm ==
    \/ \E s \in Sources : Call("p1", s) /\ DirIds \ wsDirs # {}
    \/ CacheHit("p1")
    \/ CheckForComputecpp("p1")
    \/ Mkdtemp("p1")
    \/ StubFile("p1")
    \/ HostCompile("p1")
    \/ Link("p1")
    \/ Store("p1")
    \/ StoreCopy("p1")
    \/ StoreUnlink("p1")
    \/ Finish("p1")

\* Every step inside compile_cpp_code is eventually taken: the interpreter
\* keeps running, and every spawned process (communicate() at line 86, the
\* Popen of computecpp_info at line 47) eventually exits.
SpecTerm == Init /\ [][NextTerm]_vars /\ WF_vars(Progress("p1"))

(* ---------------------------- run ------------------------------------- *)

\* The state of compile_cpp_code, which run leaves alone.
compileVars == <<toolFiles, logInfo, wsDirs, wsFiles, cache, pc, src, code, tmpdir,
                 stub, host, tmpbin, ret, err, exitStatus, invs, diag, cacheOps, done,
                 built, firstRet, prior, copying>>

\* What run can tell about one element of pipeline: whether it is an
\* instance of vp.Operation and whether it is an instance of vp.Image.
StageKinds == [isOperation : BOOLEAN, isImage : BOOLEAN]

RECURSIVE SeqsUpTo(_, _)
SeqsUpTo(S, n) ==
    IF n = 0 THEN {<<>>}
    ELSE LET shorter == SeqsUpTo(S, n - 1) IN
         shorter \cup {Append(q, x) : q \in {r \in shorter : Len(r) = n - 1}, x \in S}

Pipelines == SeqsUpTo(StageKinds, MaxStages)

\* What run can tell about binary: whether it is a string, whether it is
\* non-empty (truthy), and whether os.path.exists holds for it.
Binaries ==
    {[isStr |-> FALSE, nonEmpty |-> TRUE, exists |-> FALSE],
     [isStr |-> TRUE, nonEmpty |-> FALSE, exists |-> FALSE],
     [isStr |-> TRUE, nonEmpty |-> TRUE, exists |-> FALSE],
     [isStr |-> TRUE, nonEmpty |-> TRUE, exists |-> TRUE]}

\* Lines 295-298 only: the existence check of line 299 left out.
ValidateNoExists(pl, b) ==
    IF \E i \in 1..Len(pl) : ~pl[i].isOperation THEN "TypeError"
    ELSE IF ~b.isStr THEN "TypeError"
    ELSE "none"

\* The three checks at the head of run, in order; "none" when all pass.
Validate(pl, b) ==
    IF \E i \in 1..Len(pl) : ~pl[i].isOperation THEN "TypeError"
    ELSE IF ~b.isStr THEN "TypeError"
    ELSE IF ~(b.nonEmpty /\ b.exists) THEN "ValueError"
    ELSE "none"

\* impaths: the inputs of the elements that are images.
Impaths(pl) == SelectSeq(pl, LAMBDA e : e.isImage)

\* run(pl, b) is called.
RunCall(pl, b) ==
    /\ runPc \in {"idle", "returned", "raised"}
    /\ pipeline' = pl
    /\ binary' = b
    /\ shown' = 0
    /\ loaded' = FALSE
    /\ called' = <<>>
    /\ runErr' = "none"
    /\ runPc' = "check"
    /\ UNCHANGED compileVars

\* Lines 295-300.
RunValidate ==
    /\ runPc = "check"
    /\ runErr' = Validate(pipeline, binary)
    /\ runPc' = IF runErr' = "none" THEN "show" ELSE "raised"
    /\ UNCHANGED <<pipeline, binary, shown, loaded, called, compileVars>>

\* Lines 309-312: the next image is read and shown; imread raises when
\* the image cannot be read.
RunShow ==
    /\ runPc = "show"
    /\ shown < Len(Impaths(pipeline))
    /\ \/ /\ shown' = shown + 1
          /\ UNCHANGED <<runPc, runErr>>
       \/ /\ runPc' = "raised"
          /\ runErr' = "IOError"
          /\ UNCHANGED shown
    /\ UNCHANGED <<pipeline, binary, loaded, called, compileVars>>

\* Line 314: cdll.LoadLibrary(binary); it raises OSError when the file
\* is not a loadable shared object.
RunLoadLibrary ==
    /\ runPc = "show"
    /\ shown = Len(Impaths(pipeline))
    /\ \/ /\ binary.exists
          /\ loaded' = TRUE
          /\ runPc' = "test_add"
          /\ UNCHANGED runErr
       \/ /\ runPc' = "raised"
          /\ runErr' = "OSError"
          /\ UNCHANGED loaded
    /\ UNCHANGED <<pipeline, binary, shown, called, compileVars>>

\* Line 335.
RunTestAdd ==
    /\ runPc = "test_add"
    /\ called' = Append(called, "test_add")
    /\ runPc' = "tree"
    /\ UNCHANGED <<pipeline, binary, shown, loaded, runErr, compileVars>>

\* Line 339.
RunExpressionTree ==
    /\ runPc = "tree"
    /\ called' = Append(called, "native_expression_tree")
    /\ runPc' = "returned"
    /\ UNCHANGED <<pipeline, binary, shown, loaded, runErr, compileVars>>

NextRun ==
    \/ \E pl \in Pipelines, b \in Binaries : RunCall(pl, b)
    \/ RunValidate
    \/ RunShow
    \/ RunLoadLibrary
    \/ RunTestAdd
    \/ RunExpressionTree

\* Calls of run, with compile_cpp_code idle.
SpecRun == InitConc /\ [][NextRun]_vars

TypeOK ==
    /\ toolFiles \subseteq ToolFiles
    /\ wsDirs \subseteq DirIds
    /\ \A p \in Procs : tmpdir[p] \in DirIds \cup {0}
    /\ \A p \in Procs : exitStatus[p] \in -1..255

(* ---------------------------- views of a call ------------------------- *)

\* The compute++ invocations of p's current call, in order.
CompilerInvs(p) == SelectSeq(invs[p], LAMBDA r : r.tool = Compiler)

\* The cache writes of p's current call.
Stores(p) == SelectSeq(cacheOps[p], LAMBDA o : o[1] = "setitem")

\* p's current call took the cache-hit branch.
TookHit(p) == pc[p] = "hit" \/ (pc[p] = "returned" /\ tmpdir[p] = 0)

\* p's current call returned from the build branch.
ReturnedFromBuild(p) == pc[p] = "returned" /\ tmpdir[p] # 0

StageOrder == <<"stub.sycl", "host.o", "visioncpp_native">>

(* ---------------------------- C1 -------------------------------------- *)

\* C1: a call compile_cpp_code(S) that begins after a build of the same S
\* has returned takes the cache-hit branch, spawns no external process and
\* returns the path that first build returned.
C1_CacheIdempotence ==
    \A p \in Procs :
        prior[p] =>
            /\ pc[p] \in {"hit", "returned"}
            /\ invs[p] = <<>>
            /\ tmpdir[p] = 0
            /\ pc[p] = "returned" => ret[p] = firstRet[src[p]]

C1_Witness ==
    \E p \in Procs : prior[p] /\ pc[p] = "returned" /\ ret[p] = firstRet[src[p]]

(* ---------------------------- C2 -------------------------------------- *)

\* C2: once a call that created a scratch workspace has ended (returned,
\* raised, or terminated the process), that workspace no longer exists.
C2_WorkspaceRemovedOnEveryExit ==
    \A p \in Procs :
        (pc[p] \in Ended /\ tmpdir[p] # 0) => tmpdir[p] \notin wsDirs

(* ---------------------------- C3 -------------------------------------- *)

\* C3: every cache entry belongs to a source text some call built through
\* all three stages (compiler exited 0 and wrote its output three times);
\* a call that failed leaves no entry unless such a build happened.
C3_NoPartialCacheWrite ==
    /\ \A path \in DOMAIN cache :
           \E s \in built : path = KeyPath(Preamble \o s)
    /\ \A p \in Procs :
           (pc[p] \in {"raised", "exited"} /\ src[p] \notin built)
               => KeyPath(Preamble \o src[p]) \notin DOMAIN cache

C3_Witness ==
    \E p \in Procs :
        /\ pc[p] = "exited"
        /\ done[p] = {"stub", "host"}
        /\ Len(CompilerInvs(p)) = 3
        /\ KeyPath(Preamble \o src[p]) \notin DOMAIN cache
        /\ DOMAIN cache # {}

(* ---------------------------- C4 -------------------------------------- *)

\* C4: the compiler invocations of a call are a prefix of (stub.sycl,
\* host.o, visioncpp_native), each stage invoked at most once; a call that
\* returns from the build branch has made exactly the three, all exiting 0,
\* and exactly one cache write, made only after the third succeeded.
C4_StageOrdering ==
    \A p \in Procs :
        LET c == CompilerInvs(p) IN
        /\ Len(c) <= 3
        /\ \A i \in 1..Len(c) :
               /\ c[i].out = Join(TmpDir(tmpdir[p]), StageOrder[i])
               /\ i < Len(c) => c[i].rc = 0
        /\ Len(Stores(p)) <= 1
        /\ Len(Stores(p)) = 1 => (Len(c) = 3 /\ c[3].rc = 0)
        /\ ReturnedFromBuild(p) =>
               /\ Len(c) = 3
               /\ \A i \in 1..3 : c[i].rc = 0
               /\ Len(Stores(p)) = 1
               /\ Cardinality({q \in DOMAIN cache : cache[q].text = code[p]}) = 1

C4_Witness ==
    \E p \in Procs :
        /\ ReturnedFromBuild(p)
        /\ Len(CompilerInvs(p)) = 3
        /\ Len(Stores(p)) = 1

(* ---------------------------- C5 -------------------------------------- *)

\* C5 as stated: a call that returns from the build branch returns the
\* link-stage output path <workspace>/visioncpp_native.
C5_ReturnsLinkOutputPath ==
    \A p \in Procs : ReturnedFromBuild(p) => ret[p] = tmpbin[p]

\* C5 amended: a call that returns from the build branch returns the cache
\* path of its preamble-prefixed source, which then holds the artifact the
\* link stage wrote to <workspace>/visioncpp_native; that link output path
\* itself no longer exists.
C5_ReturnsCachePath ==
    \A p \in Procs :
        ReturnedFromBuild(p) =>
            /\ tmpbin[p] = Join(TmpDir(tmpdir[p]), "visioncpp_native")
            /\ ret[p] = KeyPath(Preamble \o src[p])
            /\ ret[p] \in DOMAIN cache
            /\ cache[ret[p]] = [text |-> Preamble \o src[p], builder |-> p]
            /\ tmpdir[p] \notin wsDirs

C5_Witness ==
    \E p \in Procs :
        /\ ReturnedFromBuild(p)
        /\ ret[p] = KeyPath(Preamble \o src[p])
        /\ ret[p] # tmpbin[p]

(* ---------------------------- C6 -------------------------------------- *)

\* C6: when check_for_computecpp runs (the source had no cache entry) while
\* one of the three required files is absent, the call ends there with a
\* VisionCppException naming an absent file, having spawned no external
\* process and written no cache entry.
C6_MissingToolchainFailsFast ==
    [][\A p \in Procs :
          (pc[p] = "check" /\ pc'[p] # "check" /\ toolFiles # ToolFiles) =>
              /\ pc'[p] = "raised"
              /\ err'[p].type = "VisionCppException"
              /\ \E f \in ToolFiles \ toolFiles : err'[p].path = PrefixPath(f)
              /\ invs'[p] = <<>>
              /\ Stores(p)' = <<>>
              /\ cache' = cache
              /\ tmpdir'[p] = 0]_vars

C6_Witness ==
    \E p \in Procs :
        /\ pc[p] = "raised"
        /\ err[p].type = "VisionCppException"
        /\ err[p].path = PrefixPath(<<"lib", "libComputeCpp.so">>)
        /\ invs[p] = <<>>

(* ---------------------------- C7 -------------------------------------- *)

\* C7: a compiler invocation that exits with a non-zero code is the last
\* invocation of its call, its stage was invoked once, and the process has
\* terminated with exactly that code.
C7_ToolchainFailureIsFatal ==
    \A p \in Procs :
        LET c == CompilerInvs(p) IN
        \A i \in 1..Len(c) :
            c[i].rc # 0 =>
                /\ i = Len(c)
                /\ invs[p][Len(invs[p])] = c[i]
                /\ \A j \in 1..Len(c) : c[j].out = c[i].out => j = i
                /\ pc[p] = "exited"
                /\ c[i].rc \in 1..255 => exitStatus[p] = c[i].rc

C7_Witness ==
    \E p \in Procs :
        /\ pc[p] = "exited"
        /\ Len(CompilerInvs(p)) = 2
        /\ CompilerInvs(p)[2].rc = 2
        /\ exitStatus[p] = 2

(* ---------------------------- C8 -------------------------------------- *)

\* C8: every key a call hands to the cache (lookup and store) and every
\* input it supplies to the compiler is preamble + X for the submitted X.
C8_PreambleInclusion ==
    \A p \in Procs :
        /\ \A i \in 1..Len(cacheOps[p]) :
               /\ cacheOps[p][i][2] = Preamble \o src[p]
               /\ cacheOps[p][i][2] # src[p]
        /\ \A i \in 1..Len(invs[p]) :
               invs[p][i].stdin # NoInput =>
                   /\ invs[p][i].stdin = Preamble \o src[p]
                   /\ invs[p][i].stdin # src[p]
        /\ ReturnedFromBuild(p) => KeyPath(Preamble \o src[p]) \in DOMAIN cache

C8_Witness ==
    \E p \in Procs :
        /\ ReturnedFromBuild(p)
        /\ \E i \in 1..Len(cacheOps[p]) : cacheOps[p][i] = <<"get", Preamble \o src[p]>>
        /\ \E i \in 1..Len(cacheOps[p]) : cacheOps[p][i] = <<"setitem", Preamble \o src[p]>>
        /\ Len(CompilerInvs(p)) = 3
        /\ CompilerInvs(p)[1].stdin = Preamble \o src[p]

(* ---------------------------- C9 -------------------------------------- *)

\* C9: a call takes the cache-hit branch only if its own exact text was
\* built through all three stages before, the cache holds an entry for a
\* text only if that text was so built, and different texts are returned
\* different cache paths.
C9_FingerprintSensitivity ==
    /\ \A p \in Procs : TookHit(p) => src[p] \in built
    /\ \A s \in Sources : KeyPath(Preamble \o s) \in DOMAIN cache => s \in built
    /\ \A s1, s2 \in DOMAIN firstRet : s1 # s2 => firstRet[s1] # firstRet[s2]
    /\ Cardinality(DOMAIN cache) >= Cardinality(DOMAIN firstRet)

C9_Witness ==
    \E p \in Procs :
        /\ src[p] = <<"A", " ">>
        /\ pc[p] = "check"
        /\ <<"A">> \in DOMAIN firstRet
        /\ <<"A", " ">> \notin built

(* ---------------------------- C10 ------------------------------------- *)

\* The stage whose compiler invocation ended p's call.
FailedStage(p) == <<"stub", "host", "link">>[Len(CompilerInvs(p))]

InBuild(p) == pc[p] \in {"stub", "host", "link", "store", "copying", "rmtree"}

C13_ArtifactSurvivesTeardown ==
    \A p \in Procs :
        /\ pc[p] = "rmtree" =>
               /\ KeyPath(Preamble \o src[p]) \in DOMAIN cache
               /\ "visioncpp_native" \notin wsFiles[tmpdir[p]]
               /\ tmpdir[p] \in wsDirs
               /\ p \notin copying
        /\ ReturnedFromBuild(p) =>
               /\ tmpdir[p] \notin wsDirs
               /\ ret[p] \in DOMAIN cache
               /\ ret[p].root # TmpDir(tmpdir[p]).root
               /\ cache[ret[p]].builder = p
               /\ p \notin copying

C13_Witness ==
    \E p \in Procs :
        /\ ReturnedFromBuild(p)
        /\ ret[p] \in DOMAIN cache
        /\ wsDirs = {}

(* ---------------------------- C14 ------------------------------------- *)

\* What the documentation of run asks of its arguments.
ArgumentsValid ==
    /\ \A i \in 1..Len(pipeline) : pipeline[i].isOperation
    /\ binary.isStr
    /\ binary.nonEmpty
    /\ binary.exists

\* C14: when a pipeline element is not an Operation, or binary is not a
\* string, or binary is empty or names no existing path, run raises before
\* it shows an image, loads a library or calls an entry point; the library
\* is loaded only when all three checks passed.
C14_RunValidationFailsFast ==
    /\ (runPc # "idle" /\ ~ArgumentsValid) =>
           /\ shown = 0
           /\ ~loaded
           /\ called = <<>>
           /\ runPc \in {"check", "raised"}
           /\ runPc = "raised" => runErr \in {"TypeError", "ValueError"}
    /\ (loaded \/ shown > 0 \/ called # <<>>) => ArgumentsValid

C14_Witness ==
    /\ runPc = "raised"
    /\ runErr = "ValueError"
    /\ ~binary.exists
    /\ Impaths(pipeline) # <<>>

(* ---------------------------- C15 ------------------------------------- *)

\* C15: no step of any call removes a cache entry, and an entry changes
\* only in the store of a call that builds that entry's own fingerprint.
C15_EntriesNeverInvalidated ==
    [][\A x \in DOMAIN cache :
           /\ x \in DOMAIN cache'
           /\ cache'[x] # cache[x] =>
                  \E p \in Procs : pc[p] = "store" /\ KeyPath(code[p]) = x]_vars

C15_Witness ==
    \E p \in Procs :
        /\ ReturnedFromBuild(p)
        /\ \E x \in DOMAIN cache : x # KeyPath(code[p])

(* ---------------------------- C16 ------------------------------------- *)

\* C16: a call that finds an entry for the preamble-prefixed source takes
\* the hit branch, whatever toolchain files exist; from there it returns the
\* entry's path, having spawned nothing, created no workspace and written
\* nothing to the cache.
C16_CacheHitSkipsEverything ==
    /\ [][\A p \in Procs :
            /\ (pc[p] \in Ended /\ pc'[p] \notin Ended
                    /\ KeyPath(Preamble \o src'[p]) \in DOMAIN cache)
                   => pc'[p] = "hit"
            /\ (pc[p] = "hit" /\ pc'[p] # "hit")
                   => /\ pc'[p] = "returned"
                      /\ ret'[p] = KeyPath(Preamble \o src[p])
                      /\ wsDirs' = wsDirs]_vars
    /\ [](\A p \in Procs :
            TookHit(p) =>
                /\ invs[p] = <<>>
                /\ tmpdir[p] = 0
                /\ Stores(p) = <<>>
                /\ err[p] = NoErr)

C16_Witness ==
    \E p \in Procs :
        /\ pc[p] = "returned"
        /\ TookHit(p)
        /\ toolFiles = {}
        /\ ret[p] \in DOMAIN cache

(* ---------------------------- C17 ------------------------------------- *)

\* C17: the first two compiler invocations of a call both get the
\* preamble-prefixed source as standard input and the third gets none; the
\* second force-includes exactly the output path of the first, and the third
\* is given exactly the output path of the second as its object file.
C17_StageInputs ==
    \A p \in Procs :
        LET c == CompilerInvs(p) IN
        /\ Len(c) >= 1 =>
               /\ c[1].stdin = Preamble \o src[p]
               /\ c[1].include = NoPath
               /\ c[1].obj = NoPath
        /\ Len(c) >= 2 =>
               /\ c[2].stdin = Preamble \o src[p]
               /\ c[2].include = c[1].out
               /\ c[2].include.name = <<"stub.sycl">>
               /\ c[2].obj = NoPath
        /\ Len(c) >= 3 =>
               /\ c[3].stdin = NoInput
               /\ c[3].include = NoPath
               /\ c[3].obj = c[2].out
               /\ c[3].obj.name = <<"host.o">>

C17_Witness ==
    \E p \in Procs : Len(CompilerInvs(p)) = 3 /\ pc[p] = "store"

(* ---------------------------- C18 ------------------------------------- *)

\* C18: a compiler invocation that exited 0 without leaving its output file
\* is the last invocation of its call; the call raised AssertionError for
\* that file, its workspace is removed, and it wrote nothing to the cache.
C18_MissingOutputRaises ==
    \A p \in Procs :
        LET c == CompilerInvs(p) IN
        \A i \in 1..Len(c) :
            (c[i].rc = 0 /\ \A st \in done[p] : StageFile(st) # c[i].out.name[1]) =>
                /\ i = Len(c)
                /\ pc[p] = "raised"
                /\ err[p] = [type |-> "AssertionError", path |-> c[i].out]
                /\ tmpdir[p] \notin wsDirs
                /\ Stores(p) = <<>>
                /\ KeyPath(code[p]) \notin DOMAIN cache

C18_Witness ==
    \E p \in Procs :
        /\ pc[p] = "raised"
        /\ Len(CompilerInvs(p)) = 2
        /\ CompilerInvs(p)[2].rc = 0
        /\ done[p] = {"stub"}
        /\ err[p].type = "AssertionError"

(* ---------------------------- C19 ------------------------------------- *)

\* C19: when every spawned process eventually exits, a call that has begun
\* eventually ends (returned, raised or exited), and no call ever makes more
\* than three compiler invocations.
C19_CallTerminates ==
    /\ (pc["p1"] \notin Ended) ~> (pc["p1"] \in Ended)
    /\ [](Len(CompilerInvs("p1")) <= 3)

C19_Witness ==
    /\ pc["p1"] = "returned"
    /\ Len(CompilerInvs("p1")) = 3

====
